---- MODULE Spec2Model ----
(***************************************************************************)
(* Model of arceos/ulib/axstd/src/hashmap.rs: a chained hash table with    *)
(* load-factor triggered doubling.  A chain (Option<Box<Entry>>) is a      *)
(* sequence of entries, head first; the bucket array is a function from    *)
(* 0..capacity-1 to chains.                                                *)
(***************************************************************************)
EXTENDS Integers, Sequences, FiniteSets, Bags, TLC

\* ---------------------------------------------------------------- bounds
\* Number of times the table may double before insert is cut off.
MaxResizes == 1

\* Keys and values the callers draw their arguments from.
Keys == {"a", "b", "c"}
Vals == {1, 2}

\* Digests the hash function may give a key: 0, 16 and 32 collide in a
\* table of 16 buckets, 0 and 32 still collide in one of 32, and 5 lives in
\* a bucket of its own.
Digests == {0, 5, 16, 32}

\* Option<V>: None is the empty sequence, Some(v) the sequence of v alone.
None == <<>>
Some(v) == <<v>>

\* ---------------------------------------------------------------- state
VARIABLES
    buckets,    \* HashMap.buckets: [0..capacity-1 -> chain]
    size,       \* HashMap.size
    capacity,   \* HashMap.capacity
    hashOf,     \* the digest hash() gives each key (fixed for a run)
    last,       \* the call that produced this state and what it returned
    mid,        \* the table as resize() left it inside the last insert
    expect,     \* per key: the value of its last insert not yet removed
    iter        \* the Iter borrowed from the table, or NoIter

vars == <<buckets, size, capacity, hashOf, last, mid, expect, iter>>

\* initial_capacity of HashMap::new
InitialCapacity == 16

\* Entry::new(key, value): the link is the position in the chain.
Entry(key, value) == [key |-> key, value |-> value]

\* fn hash(key) -> usize
hash(key) == hashOf[key]

\* Vec of n empty slots (resize_with(n, || None)).
EmptyBuckets(n) == [i \in 0..(n - 1) |-> <<>>]

NoCall == [op |-> "new", key |-> "", value |-> None, ret |-> None]
NoResize == [resized |-> FALSE]
NoIter == [live |-> FALSE]

\* ---------------------------------------------------------------- get
\* The walk of get / get_mut: the first entry of the chain with an equal key.
RECURSIVE Lookup(_, _)
Lookup(chain, key) ==
    IF chain = <<>> THEN None
    ELSE IF Head(chain).key = key THEN Some(Head(chain).value)
    ELSE Lookup(Tail(chain), key)

\* HashMap::get on the table (b, cap).
GetIn(b, cap, key) == Lookup(b[hash(key) % cap], key)

get(key) == GetIn(buckets, capacity, key)

\* The caller's write through the &mut V that get_mut returned: the value of
\* the first entry of the chain with an equal key.
RECURSIVE WriteThrough(_, _, _)
WriteThrough(chain, key, value) ==
    IF chain = <<>> THEN chain
    ELSE IF Head(chain).key = key THEN <<Entry(key, value)>> \o Tail(chain)
    ELSE <<Head(chain)>> \o WriteThrough(Tail(chain), key, value)

\* HashMap::len and HashMap::is_empty on a table of this size.
MapLen(sz) == sz
MapIsEmpty(sz) == sz = 0

\* ---------------------------------------------------------------- resize
\* Rehash without `current = next`: only the head of a chain is moved.
RehashHeadOnly(newBuckets, current, newCapacity) ==
    IF current = <<>> THEN newBuckets
    ELSE LET entry == Head(current)
             index == hash(entry.key) % newCapacity
         IN [newBuckets EXCEPT ![index] = <<entry>> \o @]

\* Rehash indexing with self.capacity, the capacity before the doubling.
RECURSIVE RehashOldCapacity(_, _, _)
RehashOldCapacity(newBuckets, current, newCapacity) ==
    IF current = <<>> THEN newBuckets
    ELSE LET entry == Head(current)
             index == hash(entry.key) % (newCapacity \div 2)
         IN RehashOldCapacity([newBuckets EXCEPT ![index] = <<entry>> \o @],
                              Tail(current), newCapacity)

\* The inner while loop of resize: every entry of the drained chain becomes
\* the head of its new bucket.
RECURSIVE Rehash(_, _, _)
Rehash(newBuckets, current, newCapacity) ==
    IF current = <<>> THEN newBuckets
    ELSE LET entry == Head(current)
             index == hash(entry.key) % newCapacity
         IN Rehash([newBuckets EXCEPT ![index] = <<entry>> \o @],
                   Tail(current), newCapacity)

\* The for loop of resize over self.buckets.drain(..), from bucket i on:
\* bucket i is moved out of the old array and its chain rehashed.  Gives the
\* new array and what is left in the old one.
RECURSIVE Drain(_, _, _, _, _)
Drain(newBuckets, old, i, cap, newCapacity) ==
    IF i >= cap THEN [new |-> newBuckets, old |-> old]
    ELSE Drain(Rehash(newBuckets, old[i], newCapacity),
               [old EXCEPT ![i] = <<>>], i + 1, cap, newCapacity)

\* resize without `self.capacity = new_capacity`.
resizeKeepsCapacity(b, sz, cap) ==
    LET newCapacity == cap * 2
        d == Drain(EmptyBuckets(newCapacity), b, 0, cap, newCapacity)
    IN [buckets  |-> d.new,
        size     |-> sz,
        capacity |-> cap,
        drained  |-> d.old]

\* HashMap::resize: the table it leaves, and the old array it discards.
resize(b, sz, cap) ==
    LET newCapacity == cap * 2
        d == Drain(EmptyBuckets(newCapacity), b, 0, cap, newCapacity)
    IN [buckets  |-> d.new,
        size     |-> sz,
        capacity |-> newCapacity,
        drained  |-> d.old]

\* ---------------------------------------------------------------- insert
\* The walk of insert keeping every entry it passes linked in front of prev.
RECURSIVE InsertWalkKeepAll(_, _, _)
InsertWalkKeepAll(prev, current, key) ==
    IF current = <<>> THEN [prev |-> prev, current |-> current, old_value |-> None]
    ELSE LET boxed_entry == Head(current)
         IN IF boxed_entry.key = key
            THEN [prev |-> prev, current |-> Tail(current),
                  old_value |-> Some(boxed_entry.value)]
            ELSE InsertWalkKeepAll(prev \o <<boxed_entry>>, Tail(current), key)

\* The walk of insert giving up after the head of the chain.
InsertWalkHeadOnly(prev, current, key) ==
    IF current = <<>> THEN [prev |-> prev, current |-> current, old_value |-> None]
    ELSE LET boxed_entry == Head(current)
         IN IF boxed_entry.key = key
            THEN [prev |-> prev, current |-> Tail(current),
                  old_value |-> Some(boxed_entry.value)]
            ELSE [prev |-> <<boxed_entry>>, current |-> Tail(current),
                  old_value |-> None]

\* The while loop of insert.  prev and current are Options of a boxed entry:
\* prev is <<>> or one entry whose link was taken, current the rest of the
\* chain.  Assigning prev drops the entry it held; leaving the loop by break
\* drops the matching entry.
RECURSIVE InsertWalk(_, _, _)
InsertWalk(prev, current, key) ==
    IF current = <<>> THEN [prev |-> prev, current |-> current, old_value |-> None]
    ELSE LET boxed_entry == Head(current)
         IN IF boxed_entry.key = key
            THEN [prev |-> prev, current |-> Tail(current),
                  old_value |-> Some(boxed_entry.value)]
            ELSE InsertWalk(<<boxed_entry>>, Tail(current), key)

\* "rebuild the list" of insert.
InsertRebuild(prev, current) ==
    IF prev # <<>> THEN prev \o current ELSE current

\* The placement of insert without size += 1.
InsertSizeNever(old_value, sz) == sz

\* size += 1 outside the test of old_value.
InsertSizeAlways(old_value, sz) == sz + 1

\* size after the placement of insert.
InsertSize(old_value, sz) == IF old_value = None THEN sz + 1 ELSE sz

\* The load-factor test at half of the capacity.
NeedsResizeHalf(sz, cap) == sz >= cap \div 2

\* The load-factor test with > for >=.
NeedsResizeLate(sz, cap) == sz > (cap * 3) \div 4

\* The load-factor test at the top of insert.
NeedsResize(sz, cap) == sz >= (cap * 3) \div 4

\* HashMap::insert on the table (b, sz, cap): the table it leaves, the table
\* as it stood after the resize step, and the returned Option.
insert(b, sz, cap, key, value) ==
    LET grown == IF NeedsResize(sz, cap) THEN resize(b, sz, cap)
                 ELSE [buckets |-> b, size |-> sz, capacity |-> cap]
        index == hash(key) % grown.capacity
        w     == InsertWalk(<<>>, grown.buckets[index], key)
        entry == InsertRebuild(w.prev, w.current)
        chain == IF w.old_value = None THEN <<Entry(key, value)>> \o entry ELSE entry
    IN [buckets  |-> [grown.buckets EXCEPT ![index] = chain],
        size     |-> InsertSize(w.old_value, grown.size),
        capacity |-> grown.capacity,
        grown    |-> grown,
        resized  |-> NeedsResize(sz, cap),
        ret      |-> w.old_value]

\* ---------------------------------------------------------------- remove
\* The while loop of remove, as in insert: removed is Some exactly when the
\* key matched, which is when size -= 1 runs (RemoveSize).
RECURSIVE RemoveWalk(_, _, _)
RemoveWalk(prev, current, key) ==
    IF current = <<>> THEN [prev |-> prev, current |-> current, removed |-> None]
    ELSE LET boxed_entry == Head(current)
         IN IF boxed_entry.key = key
            THEN [prev |-> prev, current |-> Tail(current),
                  removed |-> Some(boxed_entry.value)]
            ELSE RemoveWalk(<<boxed_entry>>, Tail(current), key)

\* The rebuild of remove forgetting prev.
RemoveRebuildNoPrev(prev, current) == current

\* "rebuild the list" of remove.
RemoveRebuild(prev, current) ==
    IF prev # <<>> THEN prev \o current ELSE current

\* size -= 1 outside the test of the key.
RemoveSizeAlways(removed, sz) == sz - 1

\* size after the walk of remove.
RemoveSize(removed, sz) == IF removed # None THEN sz - 1 ELSE sz

\* HashMap::remove on the table (b, sz, cap).
remove(b, sz, cap, key) ==
    LET index == hash(key) % cap
        w     == RemoveWalk(<<>>, b[index], key)
        entry == RemoveRebuild(w.prev, w.current)
    IN [buckets  |-> [b EXCEPT ![index] = entry],
        size     |-> RemoveSize(w.removed, sz),
        capacity |-> cap,
        ret      |-> w.removed]

\* ---------------------------------------------------------------- iter
\* HashMap::iter: the Iter it returns.  current is an Option<&Entry>: the
\* rest of the chain from the referenced entry on, <<>> for None.  yielded
\* and returned record what the calls of next() gave back so far.
NewIter ==
    [live |-> TRUE, bucket_idx |-> 0, current |-> <<>>,
     yielded |-> <<>>, returned |-> "nothing"]

\* Iter::next forgetting entry.next: current is None after every pair.
RECURSIVE IterNextHeadOnly(_, _, _)
IterNextHeadOnly(it, b, len) ==
    IF it.current # <<>>
    THEN LET entry == Head(it.current)
         IN [it EXCEPT !.current = <<>>,
                       !.yielded = Append(@, <<entry.key, entry.value>>),
                       !.returned = "Some"]
    ELSE IF it.bucket_idx >= len
    THEN [it EXCEPT !.returned = "None"]
    ELSE IterNextHeadOnly([it EXCEPT !.current = b[it.bucket_idx],
                                     !.bucket_idx = @ + 1], b, len)

\* Iter::next starting over at bucket 0 when it has run off the array.
RECURSIVE IterNextWrap(_, _, _)
IterNextWrap(it, b, len) ==
    IF it.current # <<>>
    THEN LET entry == Head(it.current)
         IN [it EXCEPT !.current = Tail(it.current),
                       !.yielded = Append(@, <<entry.key, entry.value>>),
                       !.returned = "Some"]
    ELSE IF it.bucket_idx >= len
    THEN [it EXCEPT !.returned = "None", !.bucket_idx = 0]
    ELSE IterNextWrap([it EXCEPT !.current = b[it.bucket_idx],
                                 !.bucket_idx = @ + 1], b, len)

\* Iter::next: the loop runs until it returns Some(result) or None.
RECURSIVE IterNext(_, _, _)
IterNext(it, b, len) ==
    IF it.current # <<>>
    THEN LET entry == Head(it.current)
         IN [it EXCEPT !.current = Tail(it.current),
                       !.yielded = Append(@, <<entry.key, entry.value>>),
                       !.returned = "Some"]
    ELSE IF it.bucket_idx >= len
    THEN [it EXCEPT !.returned = "None"]
    ELSE IterNext([it EXCEPT !.current = b[it.bucket_idx],
                             !.bucket_idx = @ + 1], b, len)

\* ---------------------------------------------------------------- actions
\* Hash functions of the runs: every assignment of digests to the keys, the
\* keys being named in the order of their digests.
HashFunctions ==
    {f \in [Keys -> Digests] : f["a"] <= f["b"] /\ f["b"] <= f["c"]}

\* HashMap::new, with a hash function fixed for the run.
Init ==
    /\ buckets = EmptyBuckets(InitialCapacity)
    /\ size = 0
    /\ capacity = InitialCapacity
    /\ hashOf \in HashFunctions
    /\ last = NoCall
    /\ mid = NoResize
    /\ expect = [k \in Keys |-> None]
    /\ iter = NoIter

\* The largest capacity the model lets the table reach.
MaxCapacity == InitialCapacity * (2 ^ MaxResizes)

\* A caller's map.insert(key, value).  It needs &mut self: no Iter is alive.
Insert(key, value) ==
    /\ ~iter.live
    /\ NeedsResize(size, capacity) => capacity * 2 <= MaxCapacity
    /\ LET r == insert(buckets, size, capacity, key, value)
       IN /\ buckets' = r.buckets
          /\ size' = r.size
          /\ capacity' = r.capacity
          /\ last' = [op |-> "insert", key |-> key, value |-> Some(value), ret |-> r.ret]
          /\ mid' = IF r.resized
                    THEN [resized |-> TRUE, buckets |-> r.grown.buckets,
                          size |-> r.grown.size, capacity |-> r.grown.capacity,
                          drained |-> r.grown.drained]
                    ELSE NoResize
    /\ expect' = [expect EXCEPT ![key] = Some(value)]
    /\ UNCHANGED <<hashOf, iter>>

\* A caller's map.remove(&key).
Remove(key) ==
    /\ ~iter.live
    /\ LET r == remove(buckets, size, capacity, key)
       IN /\ buckets' = r.buckets
          /\ size' = r.size
          /\ capacity' = r.capacity
          /\ last' = [op |-> "remove", key |-> key, value |-> None, ret |-> r.ret]
    /\ mid' = NoResize
    /\ expect' = [expect EXCEPT ![key] = None]
    /\ UNCHANGED <<hashOf, iter>>

\* A caller's map.get(&key).
Get(key) ==
    /\ last' = [op |-> "get", key |-> key, value |-> None, ret |-> get(key)]
    /\ mid' = NoResize
    /\ UNCHANGED <<buckets, size, capacity, hashOf, expect, iter>>

\* A caller's *map.get_mut(&key) = value, when the key is found.  It needs
\* &mut self: no Iter is alive.
GetMut(key, value) ==
    /\ ~iter.live
    /\ buckets' = [buckets EXCEPT ![hash(key) % capacity] =
                                    WriteThrough(@, key, value)]
    /\ last' = [op |-> "get_mut", key |-> key, value |-> Some(value), ret |-> get(key)]
    /\ mid' = NoResize
    /\ UNCHANGED <<size, capacity, hashOf, expect, iter>>

\* A caller's map.len().
LenCall ==
    /\ last' = [op |-> "len", key |-> "", value |-> None, ret |-> Some(MapLen(size))]
    /\ mid' = NoResize
    /\ UNCHANGED <<buckets, size, capacity, hashOf, expect, iter>>

\* A caller's map.is_empty().
IsEmptyCall ==
    /\ last' = [op |-> "is_empty", key |-> "", value |-> None,
                ret |-> Some(MapIsEmpty(size))]
    /\ mid' = NoResize
    /\ UNCHANGED <<buckets, size, capacity, hashOf, expect, iter>>

\* A caller's map.iter().
Iterate ==
    /\ ~iter.live
    /\ iter' = NewIter
    /\ last' = [op |-> "iter", key |-> "", value |-> None, ret |-> None]
    /\ mid' = NoResize
    /\ UNCHANGED <<buckets, size, capacity, hashOf, expect>>

\* A caller's it.next().
Advance ==
    /\ iter.live
    /\ iter' = IterNext(iter, buckets, capacity)
    /\ UNCHANGED <<buckets, size, capacity, hashOf, last, mid, expect>>

\* The caller lets go of the Iter.
DropIter ==
    /\ iter.live
    /\ iter' = NoIter
    /\ UNCHANGED <<buckets, size, capacity, hashOf, last, mid, expect>>

\* The callers of insert and remove.
Next ==
    \/ \E key \in Keys, value \in Vals : Insert(key, value)
    \/ \E key \in Keys : Remove(key)

Spec == Init /\ [][Next]_vars

\* The callers that also read: one hash function, two colliding keys and a
\* third in a bucket of its own.
IterHash == [k \in Keys |-> IF k = "a" THEN 0 ELSE IF k = "b" THEN 5 ELSE 16]

InitIter == Init /\ hashOf = IterHash

NextIter ==
    \/ Next
    \/ \E key \in Keys : Get(key)
    \/ \E key \in Keys, value \in Vals : GetMut(key, value)
    \/ LenCall
    \/ IsEmptyCall
    \/ Iterate
    \/ Advance
    \/ DropIter

SpecIter == InitIter /\ [][NextIter]_vars

\* The callers that change the table and traverse it; the caller of next()
\* keeps calling it while the Iter is alive.
NextTraverse ==
    \/ Next
    \/ Iterate
    \/ Advance
    \/ DropIter

\* ENABLED <<Advance>>_vars: a call of next() changes the Iter until it has
\* returned None.
AdvanceEnabled == iter.live /\ iter.returned # "None"

\* Weak fairness of Advance, WF_vars(Advance), with its ENABLED written out.
AdvanceFair == []<>(~AdvanceEnabled) \/ []<><<Advance>>_vars

SpecTraverse == InitIter /\ [][NextTraverse]_vars /\ AdvanceFair

\* ---------------------------------------------------------------- 20 inserts
\* The scenario of 20 pairwise distinct keys, the integers 0..19, inserted one
\* after another into a fresh table.
ScenarioKeys == 0..19

\* Digests the hash function may give the keys of the scenario: all collide
\* in the table of 16 buckets, 0 and 32 still collide in the one of 32.
ScenarioDigests == {0, 16, 32}

\* The keys of the entries linked in the bucket array b.
LinkedKeys(b) == UNION {{b[i][j].key : j \in 1..Len(b[i])} : i \in DOMAIN b}

\* HashMap::new before the scenario.  last.key + 1 is the next key.  hashOf
\* holds the digest of the next key and of the keys linked in the table, the
\* only keys hash() is called on from here; for every other key it is 0.
Init20 ==
    /\ buckets = EmptyBuckets(InitialCapacity)
    /\ size = 0
    /\ capacity = InitialCapacity
    /\ \E d \in ScenarioDigests : hashOf = [k \in ScenarioKeys |-> IF k = 0 THEN d ELSE 0]
    /\ last = [op |-> "new", key |-> -1, value |-> None, ret |-> None]
    /\ mid = NoResize
    /\ expect = [k \in ScenarioKeys |-> None]
    /\ iter = NoIter

\* map.insert(key, key) of the next key of the scenario; the hash function
\* gives the key after it any digest.
InsertFresh ==
    /\ ~iter.live
    /\ last.key + 1 \in ScenarioKeys
    /\ NeedsResize(size, capacity) => capacity * 2 <= MaxCapacity
    /\ LET key == last.key + 1
           r == insert(buckets, size, capacity, key, key)
       IN /\ buckets' = r.buckets
          /\ size' = r.size
          /\ capacity' = r.capacity
          /\ last' = [op |-> "insert", key |-> key, value |-> Some(key), ret |-> r.ret]
          /\ mid' = IF r.resized
                    THEN [resized |-> TRUE, buckets |-> r.grown.buckets,
                          size |-> r.grown.size, capacity |-> r.grown.capacity,
                          drained |-> r.grown.drained]
                    ELSE NoResize
          /\ expect' = [expect EXCEPT ![key] = Some(key)]
          /\ \E d \in ScenarioDigests :
                hashOf' = [k \in ScenarioKeys |->
                            IF k = key + 1 THEN d
                            ELSE IF k \in LinkedKeys(buckets') THEN hashOf[k]
                            ELSE 0]
    /\ UNCHANGED iter

Next20 == InsertFresh

Spec20 == Init20 /\ [][Next20]_vars

\* ---------------------------------------------------------------- observers
\* The places (bucket, position in its chain) of the entries linked in b.
Places(b, cap) ==
    UNION {{<<i, j>> : j \in 1..Len(b[i])} : i \in 0..(cap - 1)}

\* Number of entries linked in all chains of b.
CountEntries(b, cap) == Cardinality(Places(b, cap))

\* An entry with this key is linked somewhere in b.
Stored(b, cap, key) == \E p \in Places(b, cap) : b[p[1]][p[2]].key = key

\* The values linked under this key in b.
ValuesOf(b, cap, key) ==
    {b[p[1]][p[2]].value : p \in {q \in Places(b, cap) : b[q[1]][q[2]].key = key}}

\* The multiset of (key, value) pairs linked in b: how often each is linked.
EntryBag(b, cap) ==
    LET places == Places(b, cap)
    IN [e \in [key : Keys, value : Vals] |->
            Cardinality({p \in places : b[p[1]][p[2]] = e})]

\* The step is the call insert(k, v) / remove(k).
InsertCall(k, v) == last'.key = k /\ last'.value = Some(v) /\ Insert(k, v)
RemoveCall(k) == last'.key = k /\ last'.op = "remove" /\ Remove(k)

\* The chain without the entries of this key.
OthersOf(chain, key) == SelectSeq(chain, LAMBDA e : e.key # key)

\* The bucket hash(key) mod cap.
BucketOf(cap, key) == hash(key) % cap

\* ---------------------------------------------------------------- claims
\* C1: every key whose last insert(K, V) was not followed by remove(K) is
\* found by get(K) with value V, in every state reached by inserts and
\* removes (resizes included).
C1_RoundTrip ==
    \A k \in Keys : expect[k] # None => get(k) = expect[k]

\* C2: size (what len() returns) is the exact number of entries linked in
\* all bucket chains.
C2_SizeIsCount == size = CountEntries(buckets, capacity)

\* C3: insert(K, V2) of a stored key K replaces the value in place: get(K)
\* gives V2 afterwards, len() is unchanged and the other entries of K's
\* chain stay in it in the same order.
C3_ReplaceInPlace ==
    [][\A k \in Keys, v \in Vals :
        (InsertCall(k, v) /\ Stored(buckets, capacity, k)) =>
            /\ GetIn(buckets', capacity', k) = Some(v)
            /\ size' = size
            /\ LET was == IF mid'.resized THEN mid'.buckets ELSE buckets
               IN OthersOf(buckets'[BucketOf(capacity', k)], k)
                    = OthersOf(was[BucketOf(capacity', k)], k)]_vars

\* C4: insert(K, V) of a stored key returns the value stored under K and
\* leaves len() unchanged; insert(K, V) of a key that is not stored returns
\* None and increases len() by exactly 1.
C4_UpdateSemantics ==
    [][\A k \in Keys, v \in Vals :
        InsertCall(k, v) =>
            IF Stored(buckets, capacity, k)
            THEN /\ \E old \in ValuesOf(buckets, capacity, k) : last'.ret = Some(old)
                 /\ size' = size
            ELSE /\ last'.ret = None
                 /\ size' = size + 1]_vars

\* C4 witness: an insert found its key stored and returned the old value,
\* in a table that has grown.
C4_Witness ==
    /\ last.op = "insert"
    /\ last.ret # None
    /\ capacity > InitialCapacity

\* C5: a remove(K) that finds no entry with key K leaves the chain of
\* bucket hash(K) mod capacity exactly as it was.
C5_MissKeepsChain ==
    [][\A k \in Keys :
        (RemoveCall(k) /\ ~Stored(buckets, capacity, k)) =>
            buckets'[BucketOf(capacity, k)] = buckets[BucketOf(capacity, k)]]_vars

\* C6: remove(K) of a stored key returns K's value and get(K) is None
\* afterwards; remove(K) of a key that is not stored returns None and
\* leaves len() unchanged.
C6_RemoveSemantics ==
    [][\A k \in Keys :
        RemoveCall(k) =>
            IF Stored(buckets, capacity, k)
            THEN /\ \E old \in ValuesOf(buckets, capacity, k) : last'.ret = Some(old)
                 /\ GetIn(buckets', capacity', k) = None
            ELSE /\ last'.ret = None
                 /\ size' = size]_vars

\* C6 witness: a remove returned the value of its key, which get no longer
\* finds, while other keys are still stored.
C6_Witness ==
    /\ last.op = "remove"
    /\ last.ret # None
    /\ get(last.key) = None
    /\ CountEntries(buckets, capacity) >= 1

\* C7: remove(K) of a stored key unlinks K's entry alone and decrements
\* len() by exactly 1: every other key keeps its entry and its value.
C7_RemoveFrame ==
    [][\A k \in Keys :
        (RemoveCall(k) /\ Stored(buckets, capacity, k)) =>
            /\ size' = size - 1
            /\ \A k2 \in Keys \ {k} :
                /\ GetIn(buckets', capacity', k2) = GetIn(buckets, capacity, k2)
                /\ Stored(buckets', capacity', k2) = Stored(buckets, capacity, k2)
            /\ LET before == EntryBag(buckets, capacity)
                   after  == EntryBag(buckets', capacity')
               IN \A e \in DOMAIN before :
                    after[e] = IF e.key = k THEN 0 ELSE before[e]]_vars

\* C7 witness: a stored key was removed from a bucket in which another key
\* is still linked.
C7_Witness ==
    /\ last.op = "remove"
    /\ last.ret # None
    /\ \E k2 \in Keys \ {last.key} :
        /\ BucketOf(capacity, k2) = BucketOf(capacity, last.key)
        /\ get(k2) # None

\* C8: a full traversal of iter() yields exactly len() pairs, each key once,
\* and the yielded keys are the keys inserted and not removed since.
C8_IterationComplete ==
    (iter.live /\ iter.returned = "None") =>
        LET ys == iter.yielded
        IN /\ Len(ys) = size
           /\ \A i, j \in 1..Len(ys) : ys[i][1] = ys[j][1] => i = j
           /\ {ys[i][1] : i \in 1..Len(ys)} = {k \in Keys : expect[k] # None}

\* C9: no two entries of the table, in one chain or in two, have equal keys.
C9_Uniqueness ==
    \A p, q \in Places(buckets, capacity) :
        buckets[p[1]][p[2]].key = buckets[q[1]][q[2]].key => p = q

\* C9 witness: two entries share a chain of a table that has grown.
C9_Witness ==
    /\ capacity > InitialCapacity
    /\ \E i \in 0..(capacity - 1) : Len(buckets[i]) >= 2
    /\ CountEntries(buckets, capacity) >= 3

\* C10: resize loses no entry and creates none: the multiset of pairs
\* linked after it is the multiset linked before it, every chain of the old
\* array is drained, and size is unchanged.
C10_ResizeKeepsEntries ==
    [][\A k \in Keys, v \in Vals :
        (InsertCall(k, v) /\ NeedsResize(size, capacity)) =>
        /\ mid'.resized
        /\ EntryBag(mid'.buckets, mid'.capacity) = EntryBag(buckets, capacity)
        /\ CountEntries(mid'.buckets, mid'.capacity) = CountEntries(buckets, capacity)
        /\ \A i \in 0..(capacity - 1) : mid'.drained[i] = <<>>
        /\ mid'.size = size]_vars

\* C10 witness: a resize moved a chain of two entries, one of them into the
\* upper half of the new array.
C10_Witness ==
    /\ mid.resized
    /\ CountEntries(mid.buckets, mid.capacity) >= 3
    /\ \E i \in (mid.capacity \div 2)..(mid.capacity - 1) : mid.buckets[i] # <<>>

\* C11: after every call len() <= capacity * 3 / 4, and insert resizes
\* (before it places the key) exactly when the size it finds is
\* >= capacity * 3 / 4.
C11_LoadFactor ==
    /\ [](size <= (capacity * 3) \div 4)
    /\ [][\A k \in Keys, v \in Vals :
            InsertCall(k, v) =>
                /\ mid'.resized <=> (size >= (capacity * 3) \div 4)
                /\ mid'.resized => mid'.size = size /\ mid'.capacity = 2 * capacity
                /\ capacity' = IF mid'.resized THEN 2 * capacity ELSE capacity]_vars

\* C11 witness: an insert found the table at its threshold and resized.
C11_Witness ==
    /\ last.op = "insert"
    /\ mid.resized
    /\ mid.size = (InitialCapacity * 3) \div 4
    /\ size = mid.size + 1

\* C13: after every call, every entry linked in bucket i has
\* hash(key) mod capacity = i for the capacity of the table.
C13_Placement ==
    \A p \in Places(buckets, capacity) :
        hash(buckets[p[1]][p[2]].key) % capacity = p[1]

\* C13 witness: after a resize, an entry is linked in a bucket of the upper
\* half of the array and another one in the lower half.
C13_Witness ==
    /\ capacity > InitialCapacity
    /\ \E p, q \in Places(buckets, capacity) :
        p[1] >= InitialCapacity /\ q[1] < InitialCapacity

\* C14: insert of a key that is not stored links the new entry as the head
\* of its chain, followed by exactly the entries the chain had before the
\* placement (after the resize of this insert, if any), in the same order.
C14_PrependKeepsChain ==
    [][\A k \in Keys, v \in Vals :
        (InsertCall(k, v) /\ ~Stored(buckets, capacity, k)) =>
            LET was == IF mid'.resized THEN mid'.buckets ELSE buckets
            IN buckets'[BucketOf(capacity', k)]
                 = <<Entry(k, v)>> \o was[BucketOf(capacity', k)]]_vars

\* C18: every chain of every reachable table holds at most 2 entries.
C18_ChainAtMostTwo ==
    \A i \in 0..(capacity - 1) : Len(buckets[i]) <= 2

\* C18 witness: a key was inserted into a bucket whose chain already held
\* two entries, and the chain holds two entries afterwards.
C18_Witness ==
    /\ last.op = "insert"
    /\ last.ret = None
    /\ Len(buckets[BucketOf(capacity, last.key)]) = 2
    /\ \E k \in Keys \ {last.key} :
        /\ BucketOf(capacity, k) = BucketOf(capacity, last.key)
        /\ expect[k] # None
        /\ ~Stored(buckets, capacity, k)

\* C19: the number of linked entries never exceeds size, so remove never
\* runs size -= 1 with size = 0.
C19_NoUnderflow ==
    /\ [](CountEntries(buckets, capacity) <= size)
    /\ [](size >= 0)
    /\ [][\A k \in Keys :
            (RemoveCall(k) /\ Stored(buckets, capacity, k)) =>
                size > 0 /\ size' = size - 1]_vars

\* C19 witness: a remove found its key and took size down to the number of
\* entries still linked, here none.
C19_Witness ==
    /\ last.op = "remove"
    /\ last.ret # None
    /\ size = 0
    /\ CountEntries(buckets, capacity) = 0

\* C12: 20 pairwise distinct keys inserted one after another into a fresh
\* table resize it exactly once, during the 13th insert; after the 20th
\* insert capacity is 32 and len() is 20, whatever the digests of the keys.
C12_TwentyInserts ==
    last.op = "insert" =>
        LET n == last.key + 1
        IN /\ size = n
           /\ mid.resized <=> n = 13
           /\ mid.resized => mid.size = 12 /\ mid.capacity = 32
           /\ capacity = IF n >= 13 THEN 32 ELSE 16
           /\ n = 20 => capacity = 32 /\ size = 20

\* C12 witness: the 20th insert is done, and colliding keys were among the 20.
C12_Witness ==
    /\ last.op = "insert"
    /\ last.key = 19
    /\ size = 20
    /\ capacity = 32
    /\ \E i \in 0..(capacity - 1) : Len(buckets[i]) = 2

\* The (key, value) pairs of a chain, head first.
PairsOf(chain) == [j \in 1..Len(chain) |-> <<chain[j].key, chain[j].value>>]

\* The pairs linked in the buckets i..cap-1 of b, in index order.
RECURSIVE PairsFrom(_, _, _)
PairsFrom(b, i, cap) ==
    IF i >= cap THEN <<>> ELSE PairsOf(b[i]) \o PairsFrom(b, i + 1, cap)

\* C15: new() gives capacity 16, size 0 and 16 empty buckets; capacity is
\* always 16 * 2^k and the length of the bucket array; it changes only in
\* an insert and only by doubling, so remove, get, get_mut, len, is_empty
\* and iteration leave it alone.
C15_CapacityShape ==
    /\ capacity = 16 /\ size = 0 /\ buckets = [i \in 0..15 |-> <<>>]
    /\ [](/\ \E k \in 0..(MaxResizes + 1) : capacity = 16 * (2 ^ k)
          /\ DOMAIN buckets = 0..(capacity - 1))
    /\ [][capacity' # capacity =>
            /\ capacity' = 2 * capacity
            /\ \E k \in Keys, v \in Vals : InsertCall(k, v)]_vars
    /\ [][last'.op \in {"remove", "get", "get_mut", "len", "is_empty", "iter"}
            => capacity' = capacity]_vars
    /\ [][iter.live => capacity' = capacity]_vars

\* C15 witness: the table has doubled and a remove has run on it since.
C15_Witness ==
    /\ capacity = 2 * InitialCapacity
    /\ DOMAIN buckets = 0..(capacity - 1)
    /\ last.op = "remove"
    /\ last.ret # None

\* C16: the pairs the Iter yields are the linked pairs in bucket index order
\* and, inside a bucket, in chain order: what is yielded, the rest of the
\* current chain and the buckets from bucket_idx on are at every moment the
\* whole table in that order, and at None everything is yielded, each entry
\* once.
C16_IterationOrder ==
    iter.live =>
        /\ iter.yielded \o PairsOf(iter.current)
                \o PairsFrom(buckets, iter.bucket_idx, capacity)
             = PairsFrom(buckets, 0, capacity)
        /\ iter.returned = "None" =>
             iter.yielded = PairsFrom(buckets, 0, capacity)

\* C16 witness: a traversal ended after yielding a chain of two entries and
\* an entry of a later bucket.
C16_Witness ==
    /\ iter.live
    /\ iter.returned = "None"
    /\ Len(iter.yielded) = 3
    /\ \E i \in 0..(capacity - 1) : Len(buckets[i]) = 2

\* C17: repeated calls of next() on an unmodified table reach None, after
\* as many pairs as entries are linked; bucket_idx never exceeds the length
\* of the bucket array; after None every later call returns None.
C17_IterationFinite ==
    /\ [](iter.live =>
            /\ iter.bucket_idx <= capacity
            /\ Len(iter.yielded) <= CountEntries(buckets, capacity)
            /\ iter.returned = "None" =>
                 Len(iter.yielded) = CountEntries(buckets, capacity))
    /\ [][(iter.live /\ iter'.live /\ iter.returned = "None") =>
            iter'.returned = "None" /\ iter'.yielded = iter.yielded]_vars
    /\ (iter.live ~> (~iter.live \/ iter.returned = "None"))

\* C17 witness: next() returned None with bucket_idx at the length of the
\* array, after two pairs.
C17_Witness ==
    /\ iter.live
    /\ iter.returned = "None"
    /\ iter.bucket_idx = capacity
    /\ Len(iter.yielded) = 2
    /\ capacity > InitialCapacity

====
